---- MODULE Spec2Model ----
(***************************************************************************)
(* A model of klaus' ctags cache (src/klaus/ctagscache.py).                *)
(*                                                                         *)
(* The cache keeps tagsfiles in two dulwich LRUSizeCache sectors: the      *)
(* uncompressed one and the compressed one.  Threads call get_tagsfile     *)
(* and clear.  A thread may be preempted between any two statements of     *)
(* ctagscache.py and around every call of a collaborator that does I/O     *)
(* (create_tagsfile, delete_tagsfile, compress_tagsfile,                   *)
(* uncompress_tagsfile); the in-memory part of one LRUSizeCache method is  *)
(* one step.                                                               *)
(*                                                                         *)
(* A tagsfile is a file on disk: files[p] is the file at path p.  Its      *)
(* data is a sequence of bytes; gzip is modelled as a run-length codec     *)
(* with a magic first byte, so a compressed file differs from the          *)
(* uncompressed one in content and in size.                                *)
(***************************************************************************)
EXTENDS Integers, Sequences, FiniteSets, TLC

VARIABLES
    config,              \* the constructor's arguments and the repository's tags
    uncompressed_cache,  \* self._uncompressed_cache
    compressed_cache,    \* self._compressed_cache
    clearing,            \* self._clearing
    lock,                \* self._lock: the thread holding it, or NoThread
    files,               \* the temporary files on disk, by path
    th,                  \* every thread's position and local variables
    result,              \* what every thread's last finished call gave
    calls,               \* the number of calls made so far
    failures,            \* the number of I/O failures so far
    recency              \* the keys of the uncompressed sector by their last use,
                         \* the least recent first (kept for the properties only)

vars == <<config, uncompressed_cache, compressed_cache, clearing, lock, files, th, result,
          calls, failures, recency>>

----------------------------------------------------------------------------
(* Bounds *)

\* the number of temporary file names the disk can hold at once
MaxFiles == 5

\* the number of get_tagsfile and clear calls of one run
MaxCalls == 4

\* the number of times a collaborator fails in one run
MaxFailures == 1

\* the number of calls of one run of the specification with fairness
MaxLiveCalls == 3

Threads == {"t1", "t2"}
NoThread == "none"

PathIds == 1..MaxFiles
NoPath == 0

----------------------------------------------------------------------------
(* Revisions *)

RevA == "aaaaaaaaaaaaaaaaaaaaaaaaaaaaaaaaaaaaaaaa"
RevB == "bbbbbbbbbbbbbbbbbbbbbbbbbbbbbbbbbbbbbbbb"
RevC == "cccccccccccccccccccccccccccccccccccccccc"
ShortRev == "deadbeef"
NoRev == ""

FullRevs == {RevA, RevB, RevC}
Revs == FullRevs \cup {ShortRev}

Rep(n, b) == [i \in 1..n |-> b]

\* the constructor's arguments, and what 'ctags -R' writes for each revision
Configs ==
    { [uncompressed_max_bytes |-> 10, compressed_max_bytes |-> 5,
       tags |-> (RevA :> Rep(6, 1) @@ RevB :> Rep(6, 2) @@ RevC :> Rep(9, 3))],
      [uncompressed_max_bytes |-> 10, compressed_max_bytes |-> 6,
       tags |-> (RevA :> Rep(2, 1) @@ RevB :> Rep(2, 2) @@ RevC :> Rep(3, 3) \o Rep(4, 4))],
      [uncompressed_max_bytes |-> 10, compressed_max_bytes |-> 3,
       tags |-> (RevA :> Rep(6, 1) @@ RevB :> Rep(6, 2) @@ RevC :> Rep(9, 3))] }

----------------------------------------------------------------------------
(* gzip, as a run-length codec behind a magic byte *)

GzMagic == 31

RunLength(s) ==
    LET same(i) == \A j \in 1..i : s[j] = s[1]
    IN  CHOOSE n \in 1..Len(s) : same(n) /\ (n = Len(s) \/ ~same(n + 1))

RECURSIVE Deflate(_)
Deflate(s) ==
    IF s = <<>> THEN <<>>
    ELSE LET n == RunLength(s)
         IN  <<n, s[1]>> \o Deflate(SubSeq(s, n + 1, Len(s)))

RECURSIVE Inflate(_)
Inflate(z) ==
    IF Len(z) < 2 THEN <<>>
    ELSE Rep(z[1], z[2]) \o Inflate(SubSeq(z, 3, Len(z)))

GzipWrite(data) == <<GzMagic>> \o Deflate(data)

IsGzip(data) == Len(data) >= 1 /\ data[1] = GzMagic

GzipRead(data) == Inflate(Tail(data))

----------------------------------------------------------------------------
(* The disk *)

NoFile == [live |-> FALSE, data |-> <<>>, rev |-> NoRev, kind |-> "none"]

Live(p) == p \in PathIds /\ files[p].live

\* os.path.getsize
getsize(p) == Len(files[p].data)

Referenced ==
    {uncompressed_cache.nodes[i].value : i \in 1..Len(uncompressed_cache.nodes)}
    \cup {compressed_cache.nodes[i].value : i \in 1..Len(compressed_cache.nodes)}
    \cup UNION {{th[t].cpath, th[t].upath, th[t].ev_value, th[t].cev, result[t].value} : t \in Threads}

\* tempfile.mkstemp: a name no file has (and, here, no variable still holds)
FreePaths == {p \in PathIds : ~files[p].live /\ p \notin Referenced}

mkstemp == CHOOSE p \in FreePaths : \A q \in FreePaths : p <= q

WriteFile(p, data, rev, kind) ==
    [files EXCEPT ![p] = [live |-> TRUE, data |-> data, rev |-> rev, kind |-> kind]]

\* klaus.ctags.delete_tagsfile
delete_tagsfile(p) == [files EXCEPT ![p] = NoFile]

----------------------------------------------------------------------------
(* dulwich.lru_cache.LRUSizeCache: nodes from least to most recently used *)

EmptyCache == [nodes |-> <<>>, value_size |-> 0]

\* LRUSizeCache._update_max_size
after_cleanup_size(max_size) == (max_size * 8) \div 10

\* LRUCache.__contains__
Contains(c, key) == \E i \in 1..Len(c.nodes) : c.nodes[i].key = key

IndexOf(c, key) == CHOOSE i \in 1..Len(c.nodes) : c.nodes[i].key = key

Without(s, i) == SubSeq(s, 1, i - 1) \o SubSeq(s, i + 1, Len(s))

\* LRUCache.__getitem__: the value of the key's node
GetValue(c, key) == c.nodes[IndexOf(c, key)].value

\* RecordAccess gone wrong: a hit leaves the node where it is
RecordAccessNoMove(c, key) == c

\* LRUCache._record_access: the node becomes the most recently used
RecordAccess(c, key) ==
    LET i == IndexOf(c, key)
    IN  [c EXCEPT !.nodes = Append(Without(c.nodes, i), c.nodes[i])]

\* LRUSizeCache._remove_node, up to the call of the node's cleanup
RemoveNode(c, i) ==
    [nodes |-> Without(c.nodes, i), value_size |-> c.value_size - c.nodes[i].size]

\* LRUSizeCache.add of a value smaller than after_cleanup_size, up to the
\* cleanup: a new node, or the key's node with the new size (its value stays)
AddNode(c, key, value, size) ==
    IF Contains(c, key)
    THEN LET i == IndexOf(c, key)
         IN  [nodes |-> Append(Without(c.nodes, i), [c.nodes[i] EXCEPT !.size = size]),
              value_size |-> c.value_size - c.nodes[i].size + size]
    ELSE [nodes |-> Append(c.nodes, [key |-> key, value |-> value, size |-> size]),
          value_size |-> c.value_size + size]

Keys(c) == {c.nodes[i].key : i \in 1..Len(c.nodes)}

----------------------------------------------------------------------------
(* Threads *)

Idle == [pc |-> "idle", op |-> "none", git_rev |-> NoRev, cpath |-> NoPath,
         upath |-> NoPath, ev_key |-> NoRev, ev_value |-> NoPath, cev |-> NoPath,
         via |-> "none", cvia |-> "none", called |-> {}, changed |-> FALSE,
         solo |-> FALSE, noclear |-> FALSE,
         pre_hot |-> EmptyCache, pre_cold |-> EmptyCache]

\* called: the collaborators the call has invoked; changed: whether the call
\* itself has changed a sector; solo: whether no other call has been in
\* progress since the call began; noclear: whether no clear call has been in
\* progress since the call began; pre_hot, pre_cold: the sectors as they were
\* when the call began, for as long as the call runs alone (all kept for the
\* properties only)
NoResult == [op |-> "none", git_rev |-> NoRev, status |-> "none", value |-> NoPath,
             called |-> {}, changed |-> FALSE, solo |-> FALSE, noclear |-> FALSE]

Init ==
    /\ config \in Configs
    /\ uncompressed_cache = EmptyCache
    /\ compressed_cache = EmptyCache
    /\ clearing = FALSE
    /\ lock = NoThread
    /\ files = [p \in PathIds |-> NoFile]
    /\ th = [t \in Threads |-> Idle]
    /\ result = [t \in Threads |-> NoResult]
    /\ calls = 0
    /\ failures = 0
    /\ recency = <<>>

\* thread t begins a call: the calls in progress are no longer alone
Begin(t, op, rev, label) ==
    LET alone == \A v \in Threads \ {t} : th[v].pc = "idle"
    IN  th' = [u \in Threads |->
                  IF u = t
                  THEN [Idle EXCEPT !.pc = label, !.op = op, !.git_rev = rev,
                                    !.solo = alone,
                                    !.noclear = \A v \in Threads \ {t} : th[v].op # "clear",
                                    !.pre_hot = IF alone THEN uncompressed_cache ELSE EmptyCache,
                                    !.pre_cold = IF alone THEN compressed_cache ELSE EmptyCache]
                  ELSE [th[u] EXCEPT !.solo = FALSE,
                                     !.noclear = @ /\ op # "clear",
                                     !.pre_hot = EmptyCache, !.pre_cold = EmptyCache]]

Goto(t, label) == th' = [th EXCEPT ![t].pc = label]

\* Finish gone wrong: the call ends and keeps the lock
FinishKeepsLock(t, status, value) ==
    /\ result' = [result EXCEPT ![t] = [op |-> th[t].op, git_rev |-> th[t].git_rev,
                                        status |-> status, value |-> value,
                                        called |-> th[t].called,
                                        changed |-> th[t].changed,
                                        solo |-> th[t].solo,
                                        noclear |-> th[t].noclear]]
    /\ th' = [th EXCEPT ![t] = Idle]
    /\ lock' = lock

\* the call ends: with a value, or with an exception leaving every frame;
\* leaving the 'with self._lock' block releases the lock
Finish(t, status, value) ==
    /\ result' = [result EXCEPT ![t] = [op |-> th[t].op, git_rev |-> th[t].git_rev,
                                        status |-> status, value |-> value,
                                        called |-> th[t].called,
                                        changed |-> th[t].changed,
                                        solo |-> th[t].solo,
                                        noclear |-> th[t].noclear]]
    /\ th' = [th EXCEPT ![t] = Idle]
    /\ lock' = IF lock = t THEN NoThread ELSE lock

\* as Finish, after the call's last collaborator has been invoked
FinishCalling(t, status, value, who) ==
    /\ result' = [result EXCEPT ![t] = [op |-> th[t].op, git_rev |-> th[t].git_rev,
                                        status |-> status, value |-> value,
                                        called |-> th[t].called \cup {who},
                                        changed |-> th[t].changed,
                                        solo |-> th[t].solo,
                                        noclear |-> th[t].noclear]]
    /\ th' = [th EXCEPT ![t] = Idle]
    /\ lock' = IF lock = t THEN NoThread ELSE lock

Raise(t, error) == Finish(t, error, NoPath)

----------------------------------------------------------------------------
(* get_tagsfile *)

\* GetCall gone wrong: no assertion on the revision
GetCallNoAssert(t, rev) ==
    /\ th[t].pc = "idle"
    /\ calls < MaxCalls
    /\ calls' = calls + 1
    /\ Begin(t, "get", rev, "lock")
    /\ result' = [result EXCEPT ![t] = NoResult]
    /\ UNCHANGED <<config, uncompressed_cache, compressed_cache, clearing, lock, files,
                   failures, recency>>

\* lines 108-119: the call, and the assertion on the revision
GetCall(t, rev) ==
    /\ th[t].pc = "idle"
    /\ calls < MaxCalls
    /\ calls' = calls + 1
    /\ IF Len(rev) = 40
       THEN /\ Begin(t, "get", rev, "lock")
            /\ result' = [result EXCEPT ![t] = NoResult]
       ELSE /\ result' = [result EXCEPT ![t] = [NoResult EXCEPT !.op = "get",
                                !.git_rev = rev, !.status = "AssertionError"]]
            /\ th' = th
    /\ UNCHANGED <<config, uncompressed_cache, compressed_cache, clearing, lock, files, failures, recency>>

\* line 122: with self._lock
Acquire(t) ==
    /\ th[t].pc = "lock"
    /\ lock = NoThread
    /\ lock' = t
    /\ Goto(t, "chk_hot")
    /\ UNCHANGED <<config, uncompressed_cache, compressed_cache, clearing, files, result, calls, failures, recency>>

\* ChkHot gone wrong: the uncompressed sector is never found to hold the revision
ChkHotMisses(t) ==
    /\ th[t].pc = "chk_hot"
    /\ Goto(t, "chk_cold")
    /\ UNCHANGED <<config, uncompressed_cache, compressed_cache, clearing, lock, files,
                   result, calls, failures, recency>>

\* line 123: if git_rev in self._uncompressed_cache
ChkHot(t) ==
    /\ th[t].pc = "chk_hot"
    /\ Goto(t, IF Contains(uncompressed_cache, th[t].git_rev) THEN "hit_hot" ELSE "chk_cold")
    /\ UNCHANGED <<config, uncompressed_cache, compressed_cache, clearing, lock, files, result, calls, failures, recency>>

\* line 124: return self._uncompressed_cache[git_rev]
HitHot(t) ==
    /\ th[t].pc = "hit_hot"
    /\ IF Contains(uncompressed_cache, th[t].git_rev)
       THEN /\ uncompressed_cache' = RecordAccess(uncompressed_cache, th[t].git_rev)
            /\ recency' = Append(SelectSeq(recency, LAMBDA k : k # th[t].git_rev), th[t].git_rev)
            /\ Finish(t, "ok", GetValue(uncompressed_cache, th[t].git_rev))
       ELSE /\ Raise(t, "KeyError")
            /\ UNCHANGED <<uncompressed_cache, recency>>
    /\ UNCHANGED <<config, compressed_cache, clearing, files, calls, failures>>

\* line 126: if git_rev in self._compressed_cache
ChkCold(t) ==
    /\ th[t].pc = "chk_cold"
    /\ Goto(t, IF Contains(compressed_cache, th[t].git_rev) THEN "read_cold" ELSE "create")
    /\ UNCHANGED <<config, uncompressed_cache, compressed_cache, clearing, lock, files, result, calls, failures, recency>>

\* ReadCold gone wrong: reading the entry takes it out of the compressed sector
ReadColdPops(t) ==
    /\ th[t].pc = "read_cold"
    /\ IF Contains(compressed_cache, th[t].git_rev)
       THEN /\ compressed_cache' = RemoveNode(compressed_cache, IndexOf(compressed_cache, th[t].git_rev))
            /\ th' = [th EXCEPT ![t].pc = "uncompress",
                                 ![t].cpath = GetValue(compressed_cache, th[t].git_rev)]
            /\ UNCHANGED <<lock, result>>
       ELSE /\ Raise(t, "KeyError")
            /\ UNCHANGED compressed_cache
    /\ UNCHANGED <<config, uncompressed_cache, clearing, files, calls, failures, recency>>

\* line 127: compressed_tagsfile_path = self._compressed_cache[git_rev]
ReadCold(t) ==
    /\ th[t].pc = "read_cold"
    /\ IF Contains(compressed_cache, th[t].git_rev)
       THEN /\ compressed_cache' = RecordAccess(compressed_cache, th[t].git_rev)
            /\ th' = [th EXCEPT ![t].pc = "uncompress",
                                 ![t].cpath = GetValue(compressed_cache, th[t].git_rev)]
            /\ UNCHANGED <<lock, result>>
       ELSE /\ Raise(t, "KeyError")
            /\ UNCHANGED compressed_cache
    /\ UNCHANGED <<config, uncompressed_cache, clearing, files, calls, failures, recency>>

\* line 128 and lines 54-63: uncompress_tagsfile.  mkstemp creates the new
\* file before the compressed one is opened, so a failure leaves it behind.
Uncompress(t) ==
    /\ th[t].pc = "uncompress"
    /\ LET p == mkstemp
           src == th[t].cpath
           readable == Live(src) /\ IsGzip(files[src].data)
       IN  \/ /\ FreePaths # {} /\ readable
              /\ files' = WriteFile(p, GzipRead(files[src].data), files[src].rev, "plain")
              /\ th' = [th EXCEPT ![t].pc = "rm_cold", ![t].upath = p,
                                   ![t].called = @ \cup {"uncompress"}]
              /\ UNCHANGED <<lock, result, failures>>
           \/ /\ FreePaths # {} /\ readable
              /\ failures < MaxFailures
              /\ failures' = failures + 1
              /\ files' = WriteFile(p, <<>>, NoRev, "tmp")
              /\ FinishCalling(t, "IOFailure", NoPath, "uncompress")
           \/ /\ FreePaths # {} /\ ~readable
              /\ files' = WriteFile(p, <<>>, NoRev, "tmp")
              /\ FinishCalling(t, "IOFailure", NoPath, "uncompress")
              /\ UNCHANGED failures
           \/ /\ FreePaths = {}
              /\ FinishCalling(t, "IOFailure", NoPath, "uncompress")
              /\ UNCHANGED <<files, failures>>
    /\ UNCHANGED <<config, uncompressed_cache, compressed_cache, clearing, calls, recency>>

\* line 129: self._compressed_cache._remove_node(self._compressed_cache._cache[git_rev]);
\* the node leaves the sector and then its cleanup, _clear_compressed_entry, runs
RmCold(t) ==
    /\ th[t].pc = "rm_cold"
    /\ IF Contains(compressed_cache, th[t].git_rev)
       THEN LET i == IndexOf(compressed_cache, th[t].git_rev)
            IN  /\ compressed_cache' = RemoveNode(compressed_cache, i)
                /\ th' = [th EXCEPT ![t].pc = "cce_delete", ![t].cpath = NoPath,
                                     ![t].cev = compressed_cache.nodes[i].value,
                                     ![t].cvia = "add_hot", ![t].changed = TRUE]
                /\ UNCHANGED <<lock, result>>
       ELSE /\ Raise(t, "KeyError")
            /\ UNCHANGED compressed_cache
    /\ UNCHANGED <<config, uncompressed_cache, clearing, files, calls, failures, recency>>

\* Create gone wrong: a failed creation is remembered in the uncompressed sector
CreateCachesFailure(t) ==
    /\ th[t].pc = "create"
    /\ \/ /\ FreePaths # {}
          /\ files' = WriteFile(mkstemp, config.tags[th[t].git_rev], th[t].git_rev, "plain")
          /\ th' = [th EXCEPT ![t].pc = "add_hot", ![t].upath = mkstemp,
                               ![t].called = @ \cup {"create"}]
          /\ UNCHANGED <<lock, result, failures, uncompressed_cache>>
       \/ /\ failures < MaxFailures
          /\ failures' = failures + 1
          /\ uncompressed_cache' = AddNode(uncompressed_cache, th[t].git_rev, NoPath, 0)
          /\ FinishCalling(t, "CreationFailure", NoPath, "create")
          /\ UNCHANGED files
    /\ UNCHANGED <<config, compressed_cache, clearing, calls, recency>>

\* line 132: create_tagsfile(git_repo_path, git_rev)
Create(t) ==
    /\ th[t].pc = "create"
    /\ \/ /\ FreePaths # {}
          /\ files' = WriteFile(mkstemp, config.tags[th[t].git_rev], th[t].git_rev, "plain")
          /\ th' = [th EXCEPT ![t].pc = "add_hot", ![t].upath = mkstemp,
                               ![t].called = @ \cup {"create"}]
          /\ UNCHANGED <<lock, result, failures>>
       \/ /\ FreePaths # {}
          /\ failures < MaxFailures
          /\ failures' = failures + 1
          /\ FinishCalling(t, "CreationFailure", NoPath, "create")
          /\ UNCHANGED files
       \/ /\ FreePaths = {}
          /\ FinishCalling(t, "CreationFailure", NoPath, "create")
          /\ UNCHANGED <<files, failures>>
    /\ UNCHANGED <<config, uncompressed_cache, compressed_cache, clearing, calls, recency>>

\* lines 133-134: self._uncompressed_cache.add(...), as LRUSizeCache.add: a value
\* of after_cleanup_size or more is not stored and is handed to the cleanup at once
AddHot(t) ==
    /\ th[t].pc = "add_hot"
    /\ LET value_len == getsize(th[t].upath)
           added == AddNode(uncompressed_cache, th[t].git_rev, th[t].upath, value_len)
       IN  IF value_len >= after_cleanup_size(config.uncompressed_max_bytes)
           THEN /\ th' = [th EXCEPT ![t].pc = "cue_test", ![t].ev_key = th[t].git_rev,
                                    ![t].ev_value = th[t].upath, ![t].via = "ret"]
                /\ UNCHANGED <<uncompressed_cache, recency>>
           ELSE /\ uncompressed_cache' = added
                /\ recency' = Append(SelectSeq(recency, LAMBDA k : k # th[t].git_rev), th[t].git_rev)
                /\ th' = [th EXCEPT ![t].changed = TRUE,
                                    ![t].pc = IF added.value_size > config.uncompressed_max_bytes
                                              THEN "hot_cleanup" ELSE "ret"]
    /\ UNCHANGED <<config, compressed_cache, clearing, lock, files, result, calls, failures>>

\* HotCleanup gone wrong: nothing is evicted
HotCleanupEvictsNothing(t) ==
    /\ th[t].pc = "hot_cleanup"
    /\ Goto(t, "ret")
    /\ UNCHANGED <<config, uncompressed_cache, compressed_cache, clearing, lock, files,
                   result, calls, failures, recency>>

\* LRUSizeCache.cleanup of the uncompressed sector: _remove_lru while the
\* sector holds more than after_cleanup_size
HotCleanup(t) ==
    /\ th[t].pc = "hot_cleanup"
    /\ IF uncompressed_cache.value_size > after_cleanup_size(config.uncompressed_max_bytes)
       THEN /\ uncompressed_cache' = RemoveNode(uncompressed_cache, 1)
            /\ th' = [th EXCEPT ![t].pc = "cue_test", ![t].changed = TRUE,
                                 ![t].ev_key = uncompressed_cache.nodes[1].key,
                                 ![t].ev_value = uncompressed_cache.nodes[1].value,
                                 ![t].via = "hot_cleanup"]
            /\ recency' = SelectSeq(recency, LAMBDA k : k # uncompressed_cache.nodes[1].key)
       ELSE /\ Goto(t, "ret")
            /\ UNCHANGED <<uncompressed_cache, recency>>
    /\ UNCHANGED <<config, compressed_cache, clearing, lock, files, result, calls, failures>>

\* line 135: return uncompressed_tagsfile_path
Ret(t) ==
    /\ th[t].pc = "ret"
    /\ Finish(t, "ok", th[t].upath)
    /\ UNCHANGED <<config, uncompressed_cache, compressed_cache, clearing, files, calls, failures, recency>>


----------------------------------------------------------------------------
(* _clear_uncompressed_entry(git_rev, uncompressed_tagsfile_path): the cleanup
   of a node of the uncompressed sector, here th[t].ev_key and th[t].ev_value *)

\* CueTest gone wrong: the evicted entry is deleted whatever the flag says
CueTestSkipsDemotion(t) ==
    /\ th[t].pc = "cue_test"
    /\ Goto(t, "cue_delete")
    /\ UNCHANGED <<config, uncompressed_cache, compressed_cache, clearing, lock, files,
                   result, calls, failures, recency>>

\* line 146: if not self._clearing
CueTest(t) ==
    /\ th[t].pc = "cue_test"
    /\ Goto(t, IF ~clearing THEN "cue_compress" ELSE "cue_delete")
    /\ UNCHANGED <<config, uncompressed_cache, compressed_cache, clearing, lock, files, result, calls, failures, recency>>

\* line 149 and lines 42-51: compress_tagsfile.  mkstemp creates the new file
\* before the uncompressed one is opened, so a failure leaves it behind.
CueCompress(t) ==
    /\ th[t].pc = "cue_compress"
    /\ LET p == mkstemp
           src == th[t].ev_value
       IN  \/ /\ FreePaths # {} /\ Live(src)
              /\ files' = WriteFile(p, GzipWrite(files[src].data), files[src].rev, "gz")
              /\ th' = [th EXCEPT ![t].pc = "cue_add", ![t].cpath = p,
                                   ![t].called = @ \cup {"compress"}]
              /\ UNCHANGED <<lock, result, failures>>
           \/ /\ FreePaths # {} /\ Live(src)
              /\ failures < MaxFailures
              /\ failures' = failures + 1
              /\ files' = WriteFile(p, <<>>, NoRev, "tmp")
              /\ FinishCalling(t, "IOFailure", NoPath, "compress")
           \/ /\ FreePaths # {} /\ ~Live(src)
              /\ files' = WriteFile(p, <<>>, NoRev, "tmp")
              /\ FinishCalling(t, "IOFailure", NoPath, "compress")
              /\ UNCHANGED failures
           \/ /\ FreePaths = {}
              /\ FinishCalling(t, "IOFailure", NoPath, "compress")
              /\ UNCHANGED <<files, failures>>
    /\ UNCHANGED <<config, uncompressed_cache, compressed_cache, clearing, calls, recency>>

\* lines 149-150: self._compressed_cache.add(...), as LRUSizeCache.add
CueAdd(t) ==
    /\ th[t].pc = "cue_add"
    /\ LET value_len == getsize(th[t].cpath)
           added == AddNode(compressed_cache, th[t].ev_key, th[t].cpath, value_len)
       IN  IF value_len >= after_cleanup_size(config.compressed_max_bytes)
           THEN /\ th' = [th EXCEPT ![t].pc = "cce_delete", ![t].cev = th[t].cpath,
                                    ![t].cpath = NoPath, ![t].cvia = "cue_delete"]
                /\ UNCHANGED compressed_cache
           ELSE /\ compressed_cache' = added
                /\ th' = [th EXCEPT ![t].cpath = NoPath, ![t].changed = TRUE,
                                    ![t].pc = IF added.value_size > config.compressed_max_bytes
                                              THEN "cold_cleanup" ELSE "cue_delete"]
    /\ UNCHANGED <<config, uncompressed_cache, clearing, lock, files, result, calls, failures, recency>>

\* LRUSizeCache.cleanup of the compressed sector
ColdCleanup(t) ==
    /\ th[t].pc = "cold_cleanup"
    /\ IF compressed_cache.value_size > after_cleanup_size(config.compressed_max_bytes)
       THEN /\ compressed_cache' = RemoveNode(compressed_cache, 1)
            /\ th' = [th EXCEPT ![t].pc = "cce_delete", ![t].changed = TRUE,
                                 ![t].cev = compressed_cache.nodes[1].value,
                                 ![t].cvia = "cold_cleanup"]
       ELSE /\ Goto(t, "cue_delete")
            /\ UNCHANGED compressed_cache
    /\ UNCHANGED <<config, uncompressed_cache, clearing, lock, files, result, calls, failures, recency>>

\* line 151: delete_tagsfile(uncompressed_tagsfile_path)
CueDelete(t) ==
    /\ th[t].pc = "cue_delete"
    /\ files' = delete_tagsfile(th[t].ev_value)
    /\ th' = [th EXCEPT ![t].pc = th[t].via, ![t].ev_key = NoRev, ![t].ev_value = NoPath,
                         ![t].via = "none", ![t].called = @ \cup {"delete"}]
    /\ UNCHANGED <<config, uncompressed_cache, compressed_cache, clearing, lock, result, calls, failures, recency>>

\* lines 153-160: _clear_compressed_entry, the cleanup of a node of the
\* compressed sector, here th[t].cev
CceDelete(t) ==
    /\ th[t].pc = "cce_delete"
    /\ files' = delete_tagsfile(th[t].cev)
    /\ th' = [th EXCEPT ![t].pc = th[t].cvia, ![t].cev = NoPath, ![t].cvia = "none",
                         ![t].called = @ \cup {"delete"}]
    /\ UNCHANGED <<config, uncompressed_cache, compressed_cache, clearing, lock, result, calls, failures, recency>>

----------------------------------------------------------------------------
(* clear *)

\* ClearCall gone wrong: the flag is not set
ClearCallLeavesFlag(t) ==
    /\ th[t].pc = "idle"
    /\ calls < MaxCalls
    /\ calls' = calls + 1
    /\ Begin(t, "clear", NoRev, "clr_hot")
    /\ result' = [result EXCEPT ![t] = NoResult]
    /\ UNCHANGED <<config, uncompressed_cache, compressed_cache, clearing, lock, files,
                   failures, recency>>

\* lines 99-103: the call, and self._clearing = True; no lock is taken
ClearCall(t) ==
    /\ th[t].pc = "idle"
    /\ calls < MaxCalls
    /\ calls' = calls + 1
    /\ clearing' = TRUE
    /\ Begin(t, "clear", NoRev, "clr_hot")
    /\ result' = [result EXCEPT ![t] = NoResult]
    /\ UNCHANGED <<config, uncompressed_cache, compressed_cache, lock, files, failures, recency>>

\* line 104: self._uncompressed_cache.clear(), as LRUCache.clear: _remove_lru
\* while the sector holds a node
ClrHot(t) ==
    /\ th[t].pc = "clr_hot"
    /\ IF uncompressed_cache.nodes # <<>>
       THEN /\ uncompressed_cache' = RemoveNode(uncompressed_cache, 1)
            /\ th' = [th EXCEPT ![t].pc = "cue_test", ![t].changed = TRUE,
                                 ![t].ev_key = uncompressed_cache.nodes[1].key,
                                 ![t].ev_value = uncompressed_cache.nodes[1].value,
                                 ![t].via = "clr_hot"]
            /\ recency' = SelectSeq(recency, LAMBDA k : k # uncompressed_cache.nodes[1].key)
       ELSE /\ Goto(t, "clr_cold")
            /\ UNCHANGED <<uncompressed_cache, recency>>
    /\ UNCHANGED <<config, compressed_cache, clearing, lock, files, result, calls, failures>>

\* line 105: self._compressed_cache.clear()
ClrCold(t) ==
    /\ th[t].pc = "clr_cold"
    /\ IF compressed_cache.nodes # <<>>
       THEN /\ compressed_cache' = RemoveNode(compressed_cache, 1)
            /\ th' = [th EXCEPT ![t].pc = "cce_delete", ![t].changed = TRUE,
                                 ![t].cev = compressed_cache.nodes[1].value,
                                 ![t].cvia = "clr_cold"]
       ELSE /\ Goto(t, "clr_unset")
            /\ UNCHANGED compressed_cache
    /\ UNCHANGED <<config, uncompressed_cache, clearing, lock, files, result, calls, failures, recency>>

\* ClrUnset gone wrong: the flag stays set
ClrUnsetKeepsFlag(t) ==
    /\ th[t].pc = "clr_unset"
    /\ Finish(t, "ok", NoPath)
    /\ UNCHANGED <<config, uncompressed_cache, compressed_cache, clearing, files, calls,
                   failures, recency>>

\* line 106: self._clearing = False, and the return
ClrUnset(t) ==
    /\ th[t].pc = "clr_unset"
    /\ clearing' = FALSE
    /\ Finish(t, "ok", NoPath)
    /\ UNCHANGED <<config, uncompressed_cache, compressed_cache, files, calls, failures, recency>>

----------------------------------------------------------------------------

Next ==
    \E t \in Threads :
        \/ \E rev \in Revs : GetCall(t, rev)
        \/ Acquire(t)
        \/ ChkHot(t)
        \/ HitHot(t)
        \/ ChkCold(t)
        \/ ReadCold(t)
        \/ Uncompress(t)
        \/ RmCold(t)
        \/ Create(t)
        \/ AddHot(t)
        \/ HotCleanup(t)
        \/ Ret(t)
        \/ CueTest(t)
        \/ CueCompress(t)
        \/ CueAdd(t)
        \/ ColdCleanup(t)
        \/ CueDelete(t)
        \/ CceDelete(t)
        \/ ClearCall(t)
        \/ ClrHot(t)
        \/ ClrCold(t)
        \/ ClrUnset(t)

Spec == Init /\ [][Next]_vars

\* the steps of a call in progress: every statement and every collaborator
\* returns or raises
Step(t) ==
    \/ Acquire(t) \/ ChkHot(t) \/ HitHot(t) \/ ChkCold(t) \/ ReadCold(t)
    \/ Uncompress(t) \/ RmCold(t) \/ Create(t) \/ AddHot(t) \/ HotCleanup(t)
    \/ Ret(t) \/ CueTest(t) \/ CueCompress(t) \/ CueAdd(t) \/ ColdCleanup(t)
    \/ CueDelete(t) \/ CceDelete(t) \/ ClrHot(t) \/ ClrCold(t) \/ ClrUnset(t)

\* a running thread goes on running, and a thread waiting for the lock
\* is not passed over for ever
\* Next, for runs of MaxLiveCalls calls
FairNext ==
    \E t \in Threads :
        \/ (\E rev \in Revs : GetCall(t, rev)) /\ calls' <= MaxLiveCalls
        \/ ClearCall(t) /\ calls' <= MaxLiveCalls
        \/ Step(t)

FairSpec ==
    /\ Init /\ [][FairNext]_vars
    /\ \A t \in Threads : WF_vars(Step(t)) /\ SF_vars(Acquire(t))

----------------------------------------------------------------------------
(* Properties *)

RECURSIVE SumSizes(_)
SumSizes(nodes) == IF nodes = <<>> THEN 0 ELSE Head(nodes).size + SumSizes(Tail(nodes))

InProgress(t) == th[t].pc # "idle"

\* inside the code that reads or changes the sectors or the clearing flag
InCritical(t) == th[t].pc \notin {"idle", "lock"}

Quiescent == \A t \in Threads : ~InProgress(t)

\* the step in which t's call of op ends
Returns(t, op) == th[t].op = op /\ th'[t].pc = "idle"

LiveFilesOf(key) == {p \in PathIds : files[p].live /\ files[p].rev = key}

\* LRUSizeCache.add removes the key's node before it hands a value of
\* after_cleanup_size or more to the cleanup; no such add finds a node
OversizeFindsNoNode ==
    \A t \in Threads :
        /\ (th[t].pc = "add_hot" /\ Live(th[t].upath)
              /\ getsize(th[t].upath) >= after_cleanup_size(config.uncompressed_max_bytes))
           => ~Contains(uncompressed_cache, th[t].git_rev)
        /\ (th[t].pc = "cue_add" /\ Live(th[t].cpath)
              /\ getsize(th[t].cpath) >= after_cleanup_size(config.compressed_max_bytes))
           => ~Contains(compressed_cache, th[t].ev_key)

\* C1: in every reachable state, the steps inside a promotion or a demotion
\* included, no key is in both the uncompressed and the compressed sector.
C1_Disjoint == Keys(uncompressed_cache) \cap Keys(compressed_cache) = {}

WithinCapacity(c, max_bytes) ==
    \/ SumSizes(c.nodes) <= max_bytes
    \/ Len(c.nodes) = 1 /\ c.nodes[1].size > max_bytes

C3_OneCopy ==
    Quiescent =>
        \A key \in FullRevs :
            Cardinality(LiveFilesOf(key)) =
                IF key \in Keys(uncompressed_cache) \cup Keys(compressed_cache) THEN 1 ELSE 0

\* C4: no two calls are at once inside the code that reads or changes the
\* sectors or the clearing flag.
C4_MutualExclusion ==
    \A t, u \in Threads : (t # u /\ InCritical(t)) => ~InCritical(u)

\* C5: a get_tagsfile call that runs alone, finds its key in the compressed
\* sector and returns has not called create_tagsfile, returns a live file
\* holding the tags of the revision, and leaves the key in the uncompressed
\* sector and not in the compressed one.
C5_Promotion ==
    [][\A t \in Threads :
          (th[t].pc = "ret" /\ th'[t].pc = "idle" /\ th[t].solo
             /\ "uncompress" \in th[t].called)
          => /\ result'[t].status = "ok"
             /\ "create" \notin result'[t].called
             /\ Live(result'[t].value)
             /\ files[result'[t].value].data = config.tags[th[t].git_rev]
             /\ Contains(uncompressed_cache', th[t].git_rev)
             /\ ~Contains(compressed_cache', th[t].git_rev)]_vars

\* C6: every entry that a get_tagsfile call's insertion evicts from the
\* uncompressed sector is the sector's least recently used one, by insertions
\* and hits; the membership test changes nothing.
C6_EvictsLeastRecent ==
    [][\A t \in Threads :
          /\ (th[t].pc = "hot_cleanup" /\ th'[t].pc = "cue_test")
             => (recency # <<>> /\ th'[t].ev_key = Head(recency))
          /\ (th[t].pc = "chk_hot" /\ th'[t].pc # "chk_hot")
             => UNCHANGED <<uncompressed_cache, recency>>]_vars

\* B, created after A, is evicted before A: A has been hit since
C6_Witness ==
    \E t \in Threads :
        /\ th[t].pc = "cue_test" /\ th[t].via = "hot_cleanup"
        /\ th[t].ev_key = RevB /\ th[t].ev_value = 2
        /\ Contains(uncompressed_cache, RevA)
        /\ GetValue(uncompressed_cache, RevA) = 1

\* C7: a clear call that runs alone returns without error and leaves both
\* sectors empty and the clearing flag false; begun on empty sectors it
\* changes neither the sectors nor the disk.
C7_ClearIdempotent ==
    [][\A t \in Threads :
          (th[t].op = "clear" /\ th[t].solo)
          => /\ th'[t].pc = "idle"
                => /\ result'[t].status = "ok"
                   /\ uncompressed_cache' = EmptyCache
                   /\ compressed_cache' = EmptyCache
                   /\ ~clearing'
             /\ (~th[t].changed /\ uncompressed_cache = EmptyCache
                   /\ compressed_cache = EmptyCache)
                => UNCHANGED <<uncompressed_cache, compressed_cache, files>>]_vars

\* after a get_tagsfile call, one clear has emptied the sectors and returned,
\* and the next clear is about to return
C7_Witness ==
    \E t, u \in Threads :
        /\ calls = 3
        /\ result[t].op = "clear" /\ result[t].solo /\ result[t].status = "ok"
        /\ "delete" \in result[t].called
        /\ th[u].op = "clear" /\ th[u].solo /\ th[u].pc = "clr_unset"

\* C8: get_tagsfile with a revision that is not 40 characters long fails
\* before it takes the lock, calls no collaborator and changes neither the
\* sectors nor the clearing flag; a call that goes on has a full revision.
C8_InvalidKey ==
    [][\A t \in Threads :
          /\ th'[t].op = "get" => Len(th'[t].git_rev) = 40
          /\ \A rev \in Revs :
                (th[t].pc = "idle" /\ result'[t].op = "get" /\ result'[t].git_rev = rev
                   /\ result'[t] # result[t] /\ Len(rev) # 40)
                => /\ result'[t].status = "AssertionError"
                   /\ result'[t].called = {}
                   /\ th'[t].pc = "idle"
                   /\ UNCHANGED <<uncompressed_cache, compressed_cache, recency,
                                  clearing, lock, files>>]_vars

\* the call has failed while the sectors held entries
C8_Witness ==
    \E t \in Threads :
        /\ result[t].status = "AssertionError" /\ result[t].git_rev = ShortRev
        /\ uncompressed_cache.nodes # <<>> /\ compressed_cache.nodes # <<>>

\* C9: when create_tagsfile fails, the call ends with the error having
\* changed neither sector, the failing step changes neither the sectors nor
\* the disk, and a call that ran alone leaves the key in no sector; whether
\* a call creates the tagsfile depends on the sectors alone.
C9_CreationFailure ==
    [][\A t \in Threads :
          /\ (th[t].pc = "create" /\ th'[t].pc = "idle")
             => /\ result'[t].status = "CreationFailure"
                /\ ~result'[t].changed
                /\ UNCHANGED <<uncompressed_cache, compressed_cache, recency, clearing, files>>
                /\ th[t].solo => /\ ~Contains(uncompressed_cache', th[t].git_rev)
                                 /\ ~Contains(compressed_cache', th[t].git_rev)
          /\ (th[t].pc = "chk_cold" /\ th'[t].pc # "chk_cold")
             => (th'[t].pc = "create" <=> ~Contains(compressed_cache, th[t].git_rev))]_vars

\* after the creation has failed for a revision, a later call creates it
C9_Witness ==
    \E t, u \in Threads :
        /\ result[t].status = "CreationFailure"
        /\ th[u].pc = "add_hot" /\ th[u].git_rev = result[t].git_rev
        /\ "create" \in th[u].called

ReturnsAlone(t) == th[t].op = "get" /\ th[t].solo /\ th[t].pc = "ret" /\ th'[t].pc = "idle"

\* the scenario's sizes: an uncompressed sector of 10 bytes, tagsfiles of 6
\* bytes for A and B, and a compressed sector that takes the compressed ones
ScenarioConfig ==
    /\ config.uncompressed_max_bytes = 10
    /\ Len(config.tags[RevA]) = 6 /\ Len(config.tags[RevB]) = 6
    /\ Len(GzipWrite(config.tags[RevA])) < after_cleanup_size(config.compressed_max_bytes)
    /\ Len(GzipWrite(config.tags[RevB])) < after_cleanup_size(config.compressed_max_bytes)

\* C11: with an uncompressed sector of 10 bytes and tagsfiles of 6 bytes,
\* get(A) on an empty cache leaves A uncompressed; get(B) then leaves B
\* uncompressed and A compressed; get(A) then uncompresses A (without creating
\* it) and compresses B in the same call, leaving A uncompressed and B compressed.
C11_Scenario ==
    [][\A t \in Threads :
          (ReturnsAlone(t) /\ ScenarioConfig)
          => /\ (th[t].git_rev = RevA /\ th[t].pre_hot = EmptyCache
                   /\ th[t].pre_cold = EmptyCache)
                => (Keys(uncompressed_cache') = {RevA} /\ Keys(compressed_cache') = {})
             /\ (th[t].git_rev = RevB /\ Keys(th[t].pre_hot) = {RevA}
                   /\ th[t].pre_cold = EmptyCache)
                => (Keys(uncompressed_cache') = {RevB} /\ Keys(compressed_cache') = {RevA})
             /\ (th[t].git_rev = RevA /\ Keys(th[t].pre_hot) = {RevB}
                   /\ Keys(th[t].pre_cold) = {RevA})
                => /\ Keys(uncompressed_cache') = {RevA}
                   /\ Keys(compressed_cache') = {RevB}
                   /\ {"uncompress", "compress"} \subseteq result'[t].called
                   /\ "create" \notin result'[t].called
                   /\ result'[t].status = "ok"]_vars

\* the third call of the scenario has returned: A is uncompressed, B compressed
C11_Witness ==
    \E t \in Threads :
        /\ ScenarioConfig /\ Quiescent /\ calls = 3 /\ failures = 0
        /\ result[t].op = "get" /\ result[t].git_rev = RevA /\ result[t].status = "ok"
        /\ result[t].solo
        /\ {"uncompress", "compress"} \subseteq result[t].called
        /\ Keys(uncompressed_cache) = {RevA} /\ Keys(compressed_cache) = {RevB}
        /\ Live(GetValue(uncompressed_cache, RevA))
        /\ Live(GetValue(compressed_cache, RevB))

\* C12: when a get_tagsfile call that ran alone returns a path, the revision
\* is in the uncompressed sector with that path as its value and the file at
\* the path exists, whatever the size of the tagsfile.
C12_HandleLive ==
    [][\A t \in Threads :
          (th[t].op = "get" /\ th[t].solo /\ th'[t].pc = "idle"
             /\ result'[t].status = "ok")
          => /\ Contains(uncompressed_cache', th[t].git_rev)
             /\ GetValue(uncompressed_cache', th[t].git_rev) = result'[t].value
             /\ result'[t].value \in PathIds
             /\ files'[result'[t].value].live]_vars

\* the paths the sector holds
Values(c) == {c.nodes[i].value : i \in 1..Len(c.nodes)}

\* C13: when compress_tagsfile fails in a get_tagsfile call that ran alone,
\* while an entry evicted from the uncompressed sector is moved, the call ends
\* with the error and the evicted entry's uncompressed file is then either
\* still held by the uncompressed sector or deleted.
C13_NoLeak ==
    [][\A t \in Threads :
          (th[t].op = "get" /\ th[t].solo /\ th[t].pc = "cue_compress"
             /\ th'[t].pc = "idle")
          => /\ result'[t].status = "IOFailure"
             /\ \/ th[t].ev_value \in Values(uncompressed_cache')
                \/ ~files'[th[t].ev_value].live]_vars

\* C14: when uncompress_tagsfile fails in a get_tagsfile call that ran alone,
\* the call ends with the error, the revision is still in the compressed
\* sector with its compressed file on disk and not in the uncompressed one,
\* and the call has compressed nothing and left the uncompressed sector and
\* the compressed sector's keys and size as they were.
C14_FailedPromotion ==
    [][\A t \in Threads :
          (th[t].op = "get" /\ th[t].solo /\ th[t].pc = "uncompress"
             /\ th'[t].pc = "idle")
          => /\ result'[t].status = "IOFailure"
             /\ Contains(compressed_cache', th[t].git_rev)
             /\ GetValue(compressed_cache', th[t].git_rev) = th[t].cpath
             /\ files'[th[t].cpath].live
             /\ IsGzip(files'[th[t].cpath].data)
             /\ ~Contains(uncompressed_cache', th[t].git_rev)
             /\ uncompressed_cache' = th[t].pre_hot
             /\ Keys(compressed_cache') = Keys(th[t].pre_cold)
             /\ compressed_cache'.value_size = th[t].pre_cold.value_size
             /\ result'[t].called = {"uncompress"}]_vars

\* uncompress_tagsfile has failed for a revision of the compressed sector
\* while the uncompressed sector held another one
C14_Witness ==
    \E t \in Threads :
        /\ result[t].op = "get" /\ result[t].status = "IOFailure" /\ result[t].solo
        /\ result[t].called = {"uncompress"}
        /\ Contains(compressed_cache, result[t].git_rev)
        /\ uncompressed_cache.nodes # <<>>

\* no clear call has run beside t's call in progress
AmongGets(t) == th[t].op = "get" /\ th[t].noclear

\* create_tagsfile is about to be called for a revision a sector holds
C15_CreatesCached ==
    \E t \in Threads :
        /\ AmongGets(t) /\ th[t].pc = "create"
        /\ \/ Contains(uncompressed_cache, th[t].git_rev)
           \/ Contains(compressed_cache, th[t].git_rev)

\* two calls are about to call create_tagsfile for one revision
C15_CreatesTwice ==
    \E t, u \in Threads :
        /\ t # u /\ th[t].pc = "create" /\ th[u].pc = "create"
        /\ th[t].git_rev = th[u].git_rev

\* u's call is about to create the revision that t's call, which ran beside
\* it, has created and returned
C15_CreatesAgain ==
    \E t, u \in Threads :
        /\ t # u /\ AmongGets(u) /\ ~th[u].solo /\ th[u].pc = "create"
        /\ th[t].pc = "idle" /\ result[t].op = "get" /\ result[t].noclear
        /\ result[t].status = "ok" /\ "create" \in result[t].called
        /\ result[t].git_rev = th[u].git_rev

\* C15: where only get_tagsfile calls run beside each other, create_tagsfile
\* is not called for a revision that a sector holds, nor by two calls at once
\* for one revision, and of two calls for one revision that run beside each
\* other only one creates the tagsfile.
C15_OneCreation == ~C15_CreatesCached /\ ~C15_CreatesTwice /\ ~C15_CreatesAgain

\* C16: every step of a get_tagsfile call that runs alone for a revision the
\* uncompressed sector holds leaves the compressed sector, the disk and the
\* clearing flag unchanged; the call returns the path stored for the revision
\* without calling a collaborator, and leaves the uncompressed sector with the
\* same entries and total size, the revision's entry moved to the most
\* recently used end and the order of the others kept.
C16_HotHit ==
    [][\A t \in Threads :
          (th[t].op = "get" /\ th[t].solo /\ Contains(th[t].pre_hot, th[t].git_rev)
             /\ th'[t].pc # th[t].pc)
          => LET n == th[t].pre_hot.nodes
                 i == IndexOf(th[t].pre_hot, th[t].git_rev)
             IN  /\ UNCHANGED <<compressed_cache, files, clearing>>
                 /\ compressed_cache = th[t].pre_cold
                 /\ IF th'[t].pc = "idle"
                    THEN /\ th[t].pc = "hit_hot"
                         /\ result'[t].status = "ok"
                         /\ result'[t].value = n[i].value
                         /\ result'[t].called = {}
                         /\ uncompressed_cache'.value_size = th[t].pre_hot.value_size
                         /\ uncompressed_cache'.nodes = Without(n, i) \o <<n[i]>>
                    ELSE /\ th'[t].pc \in {"chk_hot", "hit_hot"}
                         /\ th'[t].called = {}
                         /\ uncompressed_cache' = th[t].pre_hot]_vars

\* a call has found its revision, the older of two, in the uncompressed
\* sector and has made it the most recently used one
C16_Witness ==
    \E t \in Threads :
        /\ result[t].op = "get" /\ result[t].status = "ok" /\ result[t].solo
        /\ result[t].called = {}
        /\ Len(uncompressed_cache.nodes) = 2
        /\ uncompressed_cache.nodes[2].key = result[t].git_rev
        /\ uncompressed_cache.nodes[2].value = result[t].value
        /\ uncompressed_cache.nodes[2].value < uncompressed_cache.nodes[1].value

\* C17: a clear call sets the clearing flag as it begins.  While it runs
\* alone it calls compress_tagsfile never, puts nothing into the compressed
\* sector, deletes the file of every entry it takes out of a sector, a file
\* that exists until then, and keeps the flag set; when it returns both
\* sectors are empty, no file that a sector held at the beginning exists and
\* the flag is false.
C17_ClearDestroys ==
    [][\A t \in Threads :
          /\ (th[t].pc = "idle" /\ th'[t].op = "clear") => clearing'
          /\ (th[t].op = "clear" /\ th[t].solo /\ th'[t].pc # th[t].pc)
             => /\ "compress" \notin th'[t].called
                /\ Keys(compressed_cache') \subseteq Keys(compressed_cache)
                /\ Len(compressed_cache'.nodes) <= Len(compressed_cache.nodes)
                /\ th[t].pc = "cue_test" => th'[t].pc = "cue_delete"
                /\ th[t].pc = "cue_delete"
                   => (files[th[t].ev_value].live /\ ~files'[th[t].ev_value].live)
                /\ th[t].pc = "cce_delete"
                   => (files[th[t].cev].live /\ ~files'[th[t].cev].live)
                /\ IF th'[t].pc = "idle"
                   THEN /\ result'[t].status = "ok"
                        /\ "compress" \notin result'[t].called
                        /\ ~clearing'
                        /\ uncompressed_cache' = EmptyCache
                        /\ compressed_cache' = EmptyCache
                        /\ \A p \in Values(th[t].pre_hot) \cup Values(th[t].pre_cold) :
                              ~files'[p].live
                   ELSE clearing']_vars

\* a clear call that found entries in both sectors is about to return
C17_Witness ==
    \E t \in Threads :
        /\ th[t].op = "clear" /\ th[t].solo /\ th[t].pc = "clr_unset"
        /\ th[t].pre_hot.nodes # <<>> /\ th[t].pre_cold.nodes # <<>>
        /\ uncompressed_cache = EmptyCache /\ compressed_cache = EmptyCache
        /\ \A p \in Values(th[t].pre_hot) \cup Values(th[t].pre_cold) : ~files[p].live

\* C18: under every interleaving, when a get_tagsfile call deletes the
\* uncompressed file of an entry its insertion has evicted, the compressed
\* sector holds the entry with a compressed file that exists; and an entry
\* put into the compressed sector was in the uncompressed sector when the
\* call that puts it there began to evict it, which only a get_tagsfile call does.
C18_AlwaysDemotes ==
    [][\A t \in Threads :
          /\ (th[t].op = "get" /\ th[t].pc = "cue_delete" /\ th'[t].pc # "cue_delete")
             => /\ "compress" \in th[t].called
                /\ Contains(compressed_cache, th[t].ev_key)
                /\ files[GetValue(compressed_cache, th[t].ev_key)].live
                /\ files[GetValue(compressed_cache, th[t].ev_key)].kind = "gz"
          /\ (th[t].pc = "cue_add" /\ th'[t].pc # "cue_add") => th[t].op = "get"]_vars

\* LiveFilesOf, after the step
LiveFilesAfter(key) == {p \in PathIds : files'[p].live /\ files'[p].rev = key}

\* C19: in a get_tagsfile call that runs alone, taking the revision's entry out
\* of the compressed sector lowers the sector's total size by the entry's
\* size and is followed by the deletion of the entry's compressed file, which
\* no sector holds then; when the call returns after it has uncompressed the
\* revision, the revision's only file is the returned one, held by the
\* uncompressed sector.
C19_RetiresCompressed ==
    [][\A t \in Threads :
          /\ (th[t].op = "get" /\ th[t].solo /\ th[t].pc = "rm_cold"
                /\ th'[t].pc # "rm_cold")
             => /\ ~Contains(compressed_cache', th[t].git_rev)
                /\ compressed_cache'.value_size =
                      compressed_cache.value_size - getsize(GetValue(compressed_cache, th[t].git_rev))
                /\ th'[t].pc = "cce_delete"
                /\ th'[t].cev = GetValue(compressed_cache, th[t].git_rev)
          /\ (th[t].op = "get" /\ th[t].solo /\ th[t].pc = "cce_delete"
                /\ th[t].cvia = "add_hot" /\ th'[t].pc # "cce_delete")
             => /\ files[th[t].cev].live /\ ~files'[th[t].cev].live
                /\ th[t].cev \notin Values(uncompressed_cache') \cup Values(compressed_cache')
          /\ (ReturnsAlone(t) /\ "uncompress" \in th[t].called)
             => /\ LiveFilesAfter(th[t].git_rev) = {result'[t].value}
                /\ Contains(uncompressed_cache', th[t].git_rev)
                /\ GetValue(uncompressed_cache', th[t].git_rev) = result'[t].value]_vars

\* C20: in a get_tagsfile call that runs alone, the cleanup of an entry
\* evicted from the uncompressed sector goes from compress_tagsfile to the
\* insertion into the compressed sector, then through the evictions from the
\* compressed sector, each deleting the evicted compressed file, and then to
\* the deletion of the uncompressed file; the entry is not in the uncompressed
\* sector when its compressed copy is inserted; and when the uncompressed
\* file, which exists until then, is deleted, the compressed sector holds the
\* entry with a file that is the gzip of the uncompressed one.
C20_DemotionOrder ==
    [][\A t \in Threads :
          (th[t].op = "get" /\ th[t].solo /\ th'[t].pc # th[t].pc)
          => /\ (th[t].pc = "cue_compress" /\ th'[t].pc # "idle")
                => (th'[t].pc = "cue_add" /\ UNCHANGED <<uncompressed_cache, compressed_cache>>)
             /\ th[t].pc = "cue_add"
                => /\ ~Contains(uncompressed_cache, th[t].ev_key)
                   /\ files[th[t].ev_value].live
                   /\ th'[t].pc \in {"cold_cleanup", "cue_delete"}
                   /\ Contains(compressed_cache', th[t].ev_key)
             /\ th[t].pc = "cold_cleanup"
                => /\ th'[t].pc \in {"cce_delete", "cue_delete"}
                   /\ files[th[t].ev_value].live
             /\ (th[t].pc = "cce_delete" /\ th[t].cvia = "cold_cleanup")
                => /\ files[th[t].cev].live /\ ~files'[th[t].cev].live
                   /\ files'[th[t].ev_value].live
                   /\ th'[t].pc = "cold_cleanup"
             /\ th[t].pc = "cue_delete"
                => /\ "compress" \in th[t].called
                   /\ files[th[t].ev_value].live /\ ~files'[th[t].ev_value].live
                   /\ Contains(compressed_cache, th[t].ev_key)
                   /\ LET c == GetValue(compressed_cache, th[t].ev_key)
                      IN  /\ files[c].live
                          /\ files[c].data = GzipWrite(files[th[t].ev_value].data)]_vars

====
